---- MODULE Spec2Model ----
(***************************************************************************)
(* Model of the RAG pipeline of demo_rag:                                  *)
(*   scripts/ingest_rag.py       chunk_text, l2_normalize, main            *)
(*   agents/kai_agent/rag_tools.py   _l2_normalize, rag_search             *)
(* A text is a sequence of one-character strings.  A real vector is a      *)
(* record [v, d] standing for the integer vector v divided by sqrt(d).     *)
(***************************************************************************)
EXTENDS Integers, Sequences, FiniteSets, TLC

VARIABLES
    \* chunk_text: arguments, position and locals
    cText, cSize, cOverlap, cPc, text, i, chunks, cOffsets, cIters,
    \* the corpus directory and the Qdrant collection
    corpus, collection, collExists,
    \* main: position, loop variables and locals
    iPc, fp, fchunks, start, points, nextId, raised, reported,
    \* main: what has happened in the run so far
    readCalls, embedCalls, upsertCalls, ioFailed, mismatch, mismatchIds,
    \* rag_search: arguments, client shape, position, locals, outcome and calls made
    query, limit, hasSearch, sPc, qvec, result, sRaised, sEmbedCalls, sIndexCalls, sFailed,
    \* rag_search: the ids of the points the index query was answered from, and
    \* where the ingestion run stood then
    sSeen, sSeenAt,
    \* main: the batches sent to the provider with their answers, whether
    \* recreate_collection has returned, and the number of runs of main so far
    \* and the number of points the collection held when the run started
    sent, recreated, runs, inherited

chunkVars == <<cText, cSize, cOverlap, cPc, text, i, chunks, cOffsets, cIters>>
storeVars == <<corpus, collection, collExists>>
mainVars == <<iPc, fp, fchunks, start, points, nextId, raised, reported>>
histVars == <<readCalls, embedCalls, upsertCalls, ioFailed, mismatch, mismatchIds>>
searchVars == <<query, limit, hasSearch, sPc, qvec, result, sRaised, sEmbedCalls, sIndexCalls, sFailed,
                sSeen, sSeenAt>>
logVars == <<sent, recreated, runs, inherited>>
vars == <<chunkVars, storeVars, mainVars, histVars, searchVars, logVars>>

----------------------------------------------------------------------------
\* Bounds of the chunk_text inputs
MaxTextLen == 4
MaxChunkSize == 3
MaxOverlap == 3

Alphabet == {"a", "b", " "}
Texts == UNION {[1..n -> Alphabet] : n \in 0..MaxTextLen}
ChunkSizes == -1..MaxChunkSize
Overlaps == -1..MaxOverlap

Max(a, b) == IF a >= b THEN a ELSE b
Min(a, b) == IF a <= b THEN a ELSE b

----------------------------------------------------------------------------
\* Python string primitives used by chunk_text

\* str.isspace of one character
IsSpace(c) == c = " "

RECURSIVE LStrip(_)
LStrip(s) == IF s # <<>> /\ IsSpace(Head(s)) THEN LStrip(Tail(s)) ELSE s

RECURSIVE RStrip(_)
RStrip(s) ==
    IF s # <<>> /\ IsSpace(s[Len(s)]) THEN RStrip(SubSeq(s, 1, Len(s) - 1)) ELSE s

\* str.strip()
Strip(s) == RStrip(LStrip(s))

\* s[lo:hi] for lo >= 0: a negative hi counts from the end, both ends are
\* clipped to the length
PySlice(s, lo, hi) ==
    LET h == IF hi < 0 THEN Max(0, Len(s) + hi) ELSE Min(hi, Len(s))
        l == Min(lo, Len(s))
    IN  IF h <= l THEN <<>> ELSE SubSeq(s, l + 1, h)

----------------------------------------------------------------------------
\* chunk_text

\* text[i:i+chunk_size].strip()
ChunkWindowNoStrip(t, at, chunk_size) == PySlice(t, at, at + chunk_size)
ChunkWindow(t, at, chunk_size) == Strip(PySlice(t, at, at + chunk_size))

\* max(1, chunk_size - overlap)
ChunkStepUnguarded(chunk_size, overlap) == Max(0, chunk_size - overlap)
ChunkStepOneLess(chunk_size, overlap) == Max(1, chunk_size - overlap - 1)
ChunkStep(chunk_size, overlap) == Max(1, chunk_size - overlap)

\* the while loop, from offset `at` with `acc` accumulated
RECURSIVE ChunkLoop(_, _, _, _, _)
ChunkLoop(t, at, acc, chunk_size, overlap) ==
    IF at < Len(t)
    THEN LET chunk == ChunkWindow(t, at, chunk_size)
         IN  ChunkLoop(t, at + ChunkStep(chunk_size, overlap),
                       IF chunk # <<>> THEN Append(acc, chunk) ELSE acc,
                       chunk_size, overlap)
    ELSE acc

\* chunk_text(text, chunk_size, overlap) as one call
chunk_text(t, chunk_size, overlap) ==
    LET s == Strip(t)
    IN  IF s = <<>> THEN <<>> ELSE ChunkLoop(s, 0, <<>>, chunk_size, overlap)

----------------------------------------------------------------------------
\* l2_normalize (ingest_rag.py).  np.array(vec) is [v |-> vec, d |-> 1]; the
\* norm of [v, d] is sqrt(SumSq(v) / d), and dividing by it gives v / sqrt(SumSq(v)).

RECURSIVE SumSq(_)
SumSq(v) == IF v = <<>> THEN 0 ELSE Head(v) * Head(v) + SumSq(Tail(v))

l2_normalize_by_square(vec) ==
    LET arr == [v |-> vec, d |-> 1]
        nn == SumSq(vec)
    IN  IF nn = 0 THEN arr ELSE [v |-> vec, d |-> nn * nn]

l2_normalize(vec) ==
    LET arr == [v |-> vec, d |-> 1]
        nn == SumSq(vec)
    IN  IF nn = 0 THEN arr ELSE [v |-> vec, d |-> nn]

\* the norm of x is 1 / the norm of x is 0
HasUnitNorm(x) == SumSq(x.v) = x.d
HasZeroNorm(x) == SumSq(x.v) = 0

----------------------------------------------------------------------------
\* The corpus directory: what DOCS_DIR.glob("**/*") yields, sorted by path

BATCH == 16

\* chunk_text's defaults are chunk_size = 1000 and overlap = 120; the model
\* runs main with a small window so that a short file gives several batches
DefaultChunkSize == 2
DefaultOverlap == 1
\* files in a corpus
MaxFiles == 2
\* how far the provider's vector count may be from the batch length
MaxDeviation == 1
\* runs of main on one collection
MaxRuns == 2

LongText == [k \in 1..(BATCH + 1) |-> IF k % 2 = 1 THEN "a" ELSE "b"]

Dir(p, n) == [path |-> p, name |-> n, is_dir |-> TRUE, suffix |-> "", content |-> <<>>]
File(p, n, sfx, c) == [path |-> p, name |-> n, is_dir |-> FALSE, suffix |-> sfx, content |-> c]

Pool ==
    << Dir("a", "a"),
       File("a/x.md", "x.md", ".md", <<"a", "b">>),
       File("b/x.md", "x.md", ".md", <<"b", " ">>),
       File("long.txt", "long.txt", ".txt", LongText),
       File("n.pdf", "n.pdf", ".pdf", <<"a">>),
       File("u.TXT", "u.TXT", ".TXT", <<"a">>),
       File("w.md", "w.md", ".md", <<" ", " ">>) >>

\* the entries of Pool at the positions in `keep`, in Pool's order
RECURSIVE Pick(_, _)
Pick(k, keep) ==
    IF k > Len(Pool) THEN <<>>
    ELSE (IF k \in keep THEN <<Pool[k]>> ELSE <<>>) \o Pick(k + 1, keep)

Corpora == {Pick(1, keep) : keep \in {K \in SUBSET (1..Len(Pool)) : Cardinality(K) <= MaxFiles}}

\* str.lower() on a suffix
Lower(sfx) == CASE sfx = ".MD" -> ".md" [] sfx = ".TXT" -> ".txt" [] OTHER -> sfx

----------------------------------------------------------------------------
\* The embedding provider's answer: m vectors, the j-th one chosen by pattern p

RawVecs == << <<0, 0>>, <<3, 4>>, <<1, 0>> >>
Patterns == 0..(Len(RawVecs) - 1)
Embeddings(m, p) == [j \in 1..m |-> RawVecs[((p + j) % Len(RawVecs)) + 1]]

\* an entry left in the collection by an earlier run
StaleEntry ==
    [id |-> 0, vector |-> [v |-> <<3, 4>>, d |-> 25],
     payload |-> [source |-> "old.md", chunk_index |-> 0, text |-> <<"a">>]]

----------------------------------------------------------------------------
\* main (ingest_rag.py)

\* where the run goes once the file loop stands at index f with `pts` built
AfterFile(f, pts) ==
    IF f <= Len(corpus) THEN "files" ELSE IF pts # <<>> THEN "upsert" ELSE "print"

BatchPointsIndexInBatch(name, at, batch, embeddings, firstId) ==
    [j \in 1..Min(Len(embeddings), Len(batch)) |->
        [id |-> firstId + j - 1,
         vector |-> l2_normalize(embeddings[j]),
         payload |-> [source |-> name, chunk_index |-> j - 1, text |-> batch[j]]]]

\* the points the inner loop appends for one batch: one per embedding, as long
\* as batch[j] exists
BatchPoints(name, at, batch, embeddings, firstId) ==
    [j \in 1..Min(Len(embeddings), Len(batch)) |->
        [id |-> firstId + j - 1,
         vector |-> l2_normalize(embeddings[j]),
         payload |-> [source |-> name, chunk_index |-> at + j - 1, text |-> batch[j]]]]

Abort(exc) ==
    /\ iPc' = "aborted"
    /\ raised' = exc

\* qc.recreate_collection(...)
RecreateCollectionKeeps ==
    /\ iPc = "start"
    /\ collection' = collection
    /\ collExists' = TRUE
    /\ iPc' = "client"
    /\ recreated' = TRUE
    /\ UNCHANGED <<corpus, fp, fchunks, start, points, nextId, raised, reported>>
    /\ UNCHANGED <<histVars, chunkVars, searchVars, sent, runs, inherited>>

RecreateCollection ==
    /\ iPc = "start"
    /\ collection' = <<>>
    /\ collExists' = TRUE
    /\ iPc' = "client"
    /\ recreated' = TRUE
    /\ UNCHANGED <<corpus, fp, fchunks, start, points, nextId, raised, reported>>
    /\ UNCHANGED <<histVars, chunkVars, searchVars, sent, runs, inherited>>

\* recreate_collection raises: the old collection is still there, or it was
\* deleted and no new one created
RecreateCollectionFails ==
    /\ iPc = "start"
    /\ Abort("QdrantException")
    /\ \/ UNCHANGED <<collection, collExists>>
       \/ collection' = <<>> /\ collExists' = FALSE
    /\ UNCHANGED <<corpus, fp, fchunks, start, points, nextId, reported>>
    /\ UNCHANGED <<histVars, chunkVars, searchVars, logVars>>

\* gclient = genai.Client(); points = []; the file loop starts
GenaiClient ==
    /\ iPc = "client"
    /\ points' = <<>>
    /\ fp' = 1
    /\ iPc' = AfterFile(1, <<>>)
    /\ UNCHANGED <<storeVars, fchunks, start, nextId, raised, reported>>
    /\ UNCHANGED <<histVars, chunkVars, searchVars, logVars>>

GenaiClientFails ==
    /\ iPc = "client"
    /\ Abort("ValueError")
    /\ UNCHANGED <<storeVars, fp, fchunks, start, points, nextId, reported>>
    /\ UNCHANGED <<histVars, chunkVars, searchVars, logVars>>

\* if fp.is_dir(): continue
SkipDirectory ==
    /\ iPc = "files"
    /\ corpus[fp].is_dir
    /\ fp' = fp + 1
    /\ iPc' = AfterFile(fp + 1, points)
    /\ UNCHANGED <<storeVars, fchunks, start, points, nextId, raised, reported>>
    /\ UNCHANGED <<histVars, chunkVars, searchVars, logVars>>

\* if fp.suffix.lower() not in [".md", ".txt"]: continue
SkipSuffix ==
    /\ iPc = "files"
    /\ ~corpus[fp].is_dir
    /\ Lower(corpus[fp].suffix) \notin {".md", ".txt"}
    /\ fp' = fp + 1
    /\ iPc' = AfterFile(fp + 1, points)
    /\ UNCHANGED <<storeVars, fchunks, start, points, nextId, raised, reported>>
    /\ UNCHANGED <<histVars, chunkVars, searchVars, logVars>>

\* text = fp.read_text(...); chunks = chunk_text(text); with no chunk the
\* batch loop is empty and the next file follows
ReadFile ==
    /\ iPc = "files"
    /\ ~corpus[fp].is_dir
    /\ Lower(corpus[fp].suffix) \in {".md", ".txt"}
    /\ LET cs == chunk_text(corpus[fp].content, DefaultChunkSize, DefaultOverlap)
       IN  /\ fchunks' = cs
           /\ start' = 0
           /\ IF cs = <<>>
              THEN fp' = fp + 1 /\ iPc' = AfterFile(fp + 1, points)
              ELSE fp' = fp /\ iPc' = "batches"
    /\ readCalls' = readCalls + 1
    /\ UNCHANGED <<storeVars, points, nextId, raised, reported>>
    /\ UNCHANGED <<embedCalls, upsertCalls, ioFailed, mismatch, mismatchIds, chunkVars, searchVars, logVars>>

\* read_text raises: nothing catches it
ReadFileFailsSkipped ==
    /\ iPc = "files"
    /\ ~corpus[fp].is_dir
    /\ Lower(corpus[fp].suffix) \in {".md", ".txt"}
    /\ readCalls' = readCalls + 1
    /\ ioFailed' = "read"
    /\ fp' = fp + 1
    /\ iPc' = AfterFile(fp + 1, points)
    /\ UNCHANGED <<storeVars, fchunks, start, points, nextId, raised, reported>>
    /\ UNCHANGED <<embedCalls, upsertCalls, mismatch, mismatchIds, chunkVars, searchVars, logVars>>

ReadFileFails ==
    /\ iPc = "files"
    /\ ~corpus[fp].is_dir
    /\ Lower(corpus[fp].suffix) \in {".md", ".txt"}
    /\ readCalls' = readCalls + 1
    /\ ioFailed' = "read"
    /\ Abort("OSError")
    /\ UNCHANGED <<storeVars, fp, fchunks, start, points, nextId, reported>>
    /\ UNCHANGED <<embedCalls, upsertCalls, mismatch, mismatchIds, chunkVars, searchVars, logVars>>

\* one iteration of the batch loop: embed_content answers with m vectors, the
\* inner loop builds the points; with m above the batch length batch[j] raises
\* IndexError once the batch is used up
EmbedBatch ==
    /\ iPc = "batches"
    /\ \E dev \in (0 - MaxDeviation)..MaxDeviation, p \in Patterns :
        LET batch == SubSeq(fchunks, start + 1, Min(start + BATCH, Len(fchunks)))
            m == Len(batch) + dev
            built == BatchPoints(corpus[fp].name, start, batch, Embeddings(m, p), nextId)
        IN  /\ m >= 0
            /\ points' = points \o built
            /\ sent' = Append(sent, [file |-> fp, at |-> start, texts |-> batch,
                                     vecs |-> Embeddings(m, p)])
            /\ nextId' = nextId + Min(m, Len(batch) + 1)
            /\ mismatch' = (mismatch \/ m # Len(batch))
            /\ mismatchIds' = IF m # Len(batch)
                              THEN mismatchIds \cup {built[j].id : j \in 1..Len(built)}
                              ELSE mismatchIds
            /\ IF m > Len(batch)
               THEN /\ Abort("IndexError")
                    /\ UNCHANGED <<fp, start>>
               ELSE /\ raised' = raised
                    /\ IF start + BATCH < Len(fchunks)
                       THEN start' = start + BATCH /\ fp' = fp /\ iPc' = "batches"
                       ELSE start' = start /\ fp' = fp + 1
                            /\ iPc' = AfterFile(fp + 1, points')
    /\ embedCalls' = embedCalls + 1
    /\ UNCHANGED <<storeVars, fchunks, reported>>
    /\ UNCHANGED <<readCalls, upsertCalls, ioFailed, chunkVars, searchVars, recreated, runs, inherited>>

\* embed_content raises: nothing catches it
EmbedBatchFails ==
    /\ iPc = "batches"
    /\ embedCalls' = embedCalls + 1
    /\ ioFailed' = "embed"
    /\ Abort("APIError")
    /\ UNCHANGED <<storeVars, fp, fchunks, start, points, nextId, reported>>
    /\ UNCHANGED <<readCalls, upsertCalls, mismatch, mismatchIds, chunkVars, searchVars, logVars>>

\* if points: qc.upsert(collection_name=COLLECTION, points=points)
UpsertFirstOnly ==
    /\ iPc = "upsert"
    /\ collection' = collection \o SubSeq(points, 1, 1)
    /\ upsertCalls' = upsertCalls + 1
    /\ iPc' = "print"
    /\ UNCHANGED <<corpus, collExists, fp, fchunks, start, points, nextId, raised, reported>>
    /\ UNCHANGED <<readCalls, embedCalls, ioFailed, mismatch, mismatchIds, chunkVars, searchVars, logVars>>

Upsert ==
    /\ iPc = "upsert"
    /\ collection' = collection \o points
    /\ upsertCalls' = upsertCalls + 1
    /\ iPc' = "print"
    /\ UNCHANGED <<corpus, collExists, fp, fchunks, start, points, nextId, raised, reported>>
    /\ UNCHANGED <<readCalls, embedCalls, ioFailed, mismatch, mismatchIds, chunkVars, searchVars, logVars>>

UpsertFails ==
    /\ iPc = "upsert"
    /\ upsertCalls' = upsertCalls + 1
    /\ Abort("QdrantException")
    /\ UNCHANGED <<storeVars, fp, fchunks, start, points, nextId, reported>>
    /\ UNCHANGED <<readCalls, embedCalls, ioFailed, mismatch, mismatchIds, chunkVars, searchVars, logVars>>

\* print(f"Ingested {len(points)} chunks ...")
Report ==
    /\ iPc = "print"
    /\ reported' = Len(points)
    /\ iPc' = "done"
    /\ UNCHANGED <<storeVars, fp, fchunks, start, points, nextId, raised>>
    /\ UNCHANGED <<histVars, chunkVars, searchVars, logVars>>

MainLocals ==
    /\ fp = 0
    /\ fchunks = <<>>
    /\ start = 0
    /\ points = <<>>
    /\ nextId = 1
    /\ raised = "none"
    /\ reported = -1
    /\ readCalls = 0
    /\ embedCalls = 0
    /\ upsertCalls = 0
    /\ ioFailed = "none"
    /\ mismatch = FALSE
    /\ mismatchIds = {}
    /\ sent = <<>>
    /\ recreated = FALSE

\* the script is run again: a new process with fresh locals, the collection
\* as the last run left it
MainAgain ==
    /\ iPc \in {"done", "aborted"}
    /\ runs < MaxRuns
    /\ runs' = runs + 1
    /\ inherited' = Len(collection)
    /\ iPc' = "start"
    /\ fp' = 0
    /\ fchunks' = <<>>
    /\ start' = 0
    /\ points' = <<>>
    /\ raised' = "none"
    /\ reported' = -1
    /\ readCalls' = 0
    /\ embedCalls' = 0
    /\ upsertCalls' = 0
    /\ ioFailed' = "none"
    /\ mismatch' = FALSE
    /\ mismatchIds' = {}
    /\ sent' = <<>>
    /\ recreated' = FALSE
    /\ UNCHANGED <<storeVars, nextId, chunkVars, searchVars>>

\* main is not running
MainIdle ==
    /\ runs = 0
    /\ inherited = 0
    /\ corpus = <<>>
    /\ collection = <<>>
    /\ collExists = FALSE
    /\ iPc = "idle"
    /\ MainLocals

ChunkIdle ==
    /\ cText = <<>>
    /\ cSize = 0
    /\ cOverlap = 0
    /\ cPc = "idle"
    /\ text = <<>>
    /\ i = 0
    /\ chunks = <<>>
    /\ cOffsets = <<>>
    /\ cIters = 0

\* main is started on some corpus, the collection absent or left by an earlier run
MainInit ==
    /\ corpus \in Corpora
    /\ \/ collExists = FALSE /\ collection = <<>>
       \/ collExists = TRUE /\ collection = <<StaleEntry>>
    /\ iPc = "start"
    /\ runs = 1
    /\ inherited = Len(collection)
    /\ MainLocals

MainNext ==
    \/ RecreateCollection \/ RecreateCollectionFails
    \/ GenaiClient \/ GenaiClientFails
    \/ SkipDirectory \/ SkipSuffix \/ ReadFile \/ ReadFileFails
    \/ EmbedBatch \/ EmbedBatchFails
    \/ Upsert \/ UpsertFails \/ Report


----------------------------------------------------------------------------
\* _l2_normalize (rag_tools.py)
_l2_normalize(vec) ==
    LET arr == [v |-> vec, d |-> 1]
        nn == SumSq(vec)
    IN  IF nn = 0 THEN arr ELSE [v |-> vec, d |-> nn]

\* The index service's answer to a query: the stored points by descending
\* cosine score, the first k of them.  A score is [num, den] for num / sqrt(den).
RECURSIVE Dot(_, _)
Dot(a, b) == IF a = <<>> THEN 0 ELSE Head(a) * Head(b) + Dot(Tail(a), Tail(b))

Score(x, q) == [num |-> Dot(x.v, q.v), den |-> x.d * q.d]

\* s1 > s2
ScoreAbove(s1, s2) ==
    IF s1.num >= 0 /\ s2.num >= 0 THEN s1.num * s1.num * s2.den > s2.num * s2.num * s1.den
    ELSE IF s1.num < 0 /\ s2.num < 0 THEN s1.num * s1.num * s2.den < s2.num * s2.num * s1.den
    ELSE s1.num >= 0 /\ s2.num < 0

\* position of a point in the ranking: the points that beat it, plus one
Rank(k, q) ==
    1 + Cardinality({m \in 1..Len(collection) :
            \/ ScoreAbove(Score(collection[m].vector, q), Score(collection[k].vector, q))
            \/ /\ ~ScoreAbove(Score(collection[k].vector, q), Score(collection[m].vector, q))
               /\ m < k})

Ranked(q) ==
    [r \in 1..Len(collection) |->
        LET k == CHOOSE k \in 1..Len(collection) : Rank(k, q) = r
        IN  [score |-> Score(collection[k].vector, q), payload |-> collection[k].payload]]

TopK(q, k) == SubSeq(Ranked(q), 1, Min(Max(k, 0), Len(collection)))

\* the results list built from the hits
Results(hits) ==
    [h \in 1..Len(hits) |->
        [score |-> hits[h].score, source |-> hits[h].payload.source,
         chunk_index |-> hits[h].payload.chunk_index, text |-> hits[h].payload.text]]

----------------------------------------------------------------------------
\* rag_search (rag_tools.py)

MaxQueryLen == 2
MaxLimit == 2

Queries == UNION {[1..n -> {"a", " "}] : n \in 0..MaxQueryLen}
Limits == -1..MaxLimit

NoVec == [v |-> <<>>, d |-> 1]
NoResult == [status |-> "none", message |-> "", results |-> <<>>]

\* not query or not query.strip()
BlankEmptyOnly(q) == q = <<>>
Blank(q) == q = <<>> \/ Strip(q) = <<>>

SearchDone(res, exc) ==
    /\ sPc' = "done"
    /\ result' = res
    /\ sRaised' = exc

\* if not query or not query.strip(): return {"status": "error", ...}
SearchReject ==
    /\ sPc = "call"
    /\ Blank(query)
    /\ SearchDone([status |-> "error", message |-> "query is required", results |-> <<>>], "none")
    /\ UNCHANGED <<query, limit, hasSearch, qvec, sEmbedCalls, sIndexCalls, sFailed, sSeen, sSeenAt>>
    /\ UNCHANGED <<chunkVars, storeVars, mainVars, histVars, logVars>>

\* embed_content(contents=query.strip()) answers with m vectors;
\* [emb] = emb_res.embeddings raises ValueError unless m = 1
SearchEmbed ==
    /\ sPc = "call"
    /\ ~Blank(query)
    /\ sEmbedCalls' = sEmbedCalls + 1
    /\ \E m \in Max(0, 1 - MaxDeviation)..(1 + MaxDeviation), p \in Patterns :
        IF m = 1
        THEN /\ qvec' = _l2_normalize(Embeddings(m, p)[1])
             /\ sPc' = "query"
             /\ UNCHANGED <<result, sRaised, sFailed>>
        ELSE /\ p = 0
             /\ SearchDone(result, "ValueError")
             /\ sFailed' = "embed"
             /\ UNCHANGED qvec
    /\ UNCHANGED <<query, limit, hasSearch, sIndexCalls, sSeen, sSeenAt>>
    /\ UNCHANGED <<chunkVars, storeVars, mainVars, histVars, logVars>>

\* embed_content raises: nothing catches it
SearchEmbedFails ==
    /\ sPc = "call"
    /\ ~Blank(query)
    /\ sEmbedCalls' = sEmbedCalls + 1
    /\ SearchDone(result, "APIError")
    /\ sFailed' = "embed"
    /\ UNCHANGED <<query, limit, hasSearch, qvec, sIndexCalls, sSeen, sSeenAt>>
    /\ UNCHANGED <<chunkVars, storeVars, mainVars, histVars, logVars>>

\* the index answers from the collection as it stands: before
\* recreate_collection, between it and the upsert, or after the upsert
Observe ==
    /\ sSeen' = {collection[k].id : k \in 1..Len(collection)}
    /\ sSeenAt' = IF ~recreated THEN "before"
                  ELSE IF upsertCalls = 1 /\ iPc \in {"print", "done"} THEN "after"
                  ELSE "window"

\* hits = qc.search(..., limit=int(limit)), then the results list and
\* return {"status": "ok", "results": results}
SearchIndex ==
    /\ sPc = "query"
    /\ hasSearch
    /\ collExists
    /\ sIndexCalls' = sIndexCalls + 1
    /\ SearchDone([status |-> "ok", message |-> "", results |-> Results(TopK(qvec, limit))], "none")
    /\ Observe
    /\ UNCHANGED <<query, limit, hasSearch, qvec, sEmbedCalls, sFailed>>
    /\ UNCHANGED <<chunkVars, storeVars, mainVars, histVars, logVars>>

\* the client has no search method: hits = qc.query_points(...).points
QueryPoints ==
    /\ sPc = "query"
    /\ ~hasSearch
    /\ collExists
    /\ sIndexCalls' = sIndexCalls + 1
    /\ SearchDone([status |-> "ok", message |-> "", results |-> Results(TopK(qvec, limit))], "none")
    /\ Observe
    /\ UNCHANGED <<query, limit, hasSearch, qvec, sEmbedCalls, sFailed>>
    /\ UNCHANGED <<chunkVars, storeVars, mainVars, histVars, logVars>>

\* the index query raises (no collection, bad request, no connection):
\* nothing catches it
SearchIndexFails ==
    /\ sPc = "query"
    /\ sIndexCalls' = sIndexCalls + 1
    /\ SearchDone(result, "QdrantException")
    /\ sFailed' = "index"
    /\ UNCHANGED <<query, limit, hasSearch, qvec, sEmbedCalls, sSeen, sSeenAt>>
    /\ UNCHANGED <<chunkVars, storeVars, mainVars, histVars, logVars>>

SearchLocals ==
    /\ qvec = NoVec
    /\ result = NoResult
    /\ sRaised = "none"
    /\ sEmbedCalls = 0
    /\ sIndexCalls = 0
    /\ sFailed = "none"
    /\ sSeen = {}
    /\ sSeenAt = "none"

\* rag_search is not called
SearchIdle ==
    /\ query = <<>>
    /\ limit = 0
    /\ hasSearch = TRUE
    /\ sPc = "idle"
    /\ SearchLocals

\* what a run over a/x.md leaves in the collection
IndexedCollection ==
    BatchPoints("x.md", 0, << <<"a", "b">>, <<"b">> >>, Embeddings(2, 0), 1)

\* one ingestion run
Init == MainInit /\ ChunkIdle /\ SearchIdle

Next == MainNext

Spec == Init /\ [][Next]_vars

\* the script run up to MaxRuns times over a directory of at most one entry
RerunInit ==
    /\ MainInit
    /\ Len(corpus) <= 1
    /\ ChunkIdle
    /\ SearchIdle

SpecReruns == RerunInit /\ [][MainNext \/ MainAgain]_vars

\* rag_search is called once, the collection absent, empty or indexed
SearchInit ==
    /\ query \in Queries
    /\ limit \in Limits
    /\ hasSearch \in BOOLEAN
    /\ sPc = "call"
    /\ SearchLocals
    /\ corpus = <<>>
    /\ \/ collExists = FALSE /\ collection = <<>>
       \/ collExists = TRUE /\ collection \in {<<>>, IndexedCollection}
    /\ iPc = "idle"
    /\ runs = 0
    /\ inherited = 0
    /\ MainLocals
    /\ ChunkIdle

SearchNext ==
    \/ SearchReject \/ SearchEmbed \/ SearchEmbedFails
    \/ SearchIndex \/ QueryPoints \/ SearchIndexFails

SpecSearch == SearchInit /\ [][SearchNext]_vars

\* one ingestion run over at most one directory entry and one search on the
\* same collection, in any interleaving
PipelineInit ==
    /\ MainInit
    /\ Len(corpus) <= 1
    /\ ChunkIdle
    /\ query \in {<<"a">>, <<" ">>}
    /\ limit \in {1, MaxLimit}
    /\ hasSearch \in BOOLEAN
    /\ sPc = "call"
    /\ SearchLocals

SpecPipeline == PipelineInit /\ [][MainNext \/ SearchNext]_vars

----------------------------------------------------------------------------
\* chunk_text step by step: entry (strip, empty test), one loop iteration,
\* return.  cOffsets records the offset each appended chunk was taken at.
ChunkEnter ==
    /\ cPc = "call"
    /\ text' = Strip(cText)
    /\ i' = 0
    /\ chunks' = <<>>
    /\ cOffsets' = <<>>
    /\ cIters' = 0
    /\ cPc' = IF Strip(cText) = <<>> THEN "ret" ELSE "loop"
    /\ UNCHANGED <<cText, cSize, cOverlap, storeVars, mainVars, histVars, searchVars, logVars>>

ChunkIterate ==
    /\ cPc = "loop"
    /\ i < Len(text)
    /\ LET chunk == ChunkWindow(text, i, cSize)
       IN  /\ chunks' = IF chunk # <<>> THEN Append(chunks, chunk) ELSE chunks
           /\ cOffsets' = IF chunk # <<>> THEN Append(cOffsets, i) ELSE cOffsets
    /\ i' = i + ChunkStep(cSize, cOverlap)
    /\ cIters' = cIters + 1
    /\ UNCHANGED <<cText, cSize, cOverlap, cPc, text, storeVars, mainVars, histVars, searchVars, logVars>>

ChunkReturn ==
    /\ cPc = "loop"
    /\ ~(i < Len(text))
    /\ cPc' = "ret"
    /\ UNCHANGED <<cText, cSize, cOverlap, text, i, chunks, cOffsets, cIters>>
    /\ UNCHANGED <<storeVars, mainVars, histVars, searchVars, logVars>>

ChunkInit ==
    /\ MainIdle
    /\ SearchIdle
    /\ cText \in Texts
    /\ cSize \in ChunkSizes
    /\ cOverlap \in Overlaps
    /\ cPc = "call"
    /\ text = <<>>
    /\ i = 0
    /\ chunks = <<>>
    /\ cOffsets = <<>>
    /\ cIters = 0

ChunkNext == ChunkEnter \/ ChunkIterate \/ ChunkReturn

SpecChunk == ChunkInit /\ [][ChunkNext]_vars

\* a call of chunk_text that keeps running while it can take a step
SpecChunkFair == ChunkInit /\ [][ChunkNext]_vars /\ WF_vars(ChunkNext)

----------------------------------------------------------------------------
\* Properties of chunk_text

\* s without its leading and trailing whitespace, by positions
Trimmed(s) ==
    LET keep == {k \in 1..Len(s) : ~IsSpace(s[k])}
    IN  IF keep = {} THEN <<>>
        ELSE SubSeq(s, CHOOSE k \in keep : \A m \in keep : k <= m,
                       CHOOSE k \in keep : \A m \in keep : k >= m)

\* The trimmed windows of the trimmed text at offsets 0, step, 2*step, ...
\* below its length, each [offset, offset+size) clipped, the empty ones dropped
ExpectedWindows(t0, size, overlap) ==
    LET t == Trimmed(t0)
        step == IF size - overlap >= 1 THEN size - overlap ELSE 1
        n == Cardinality({k \in 0..Len(t) : k * step < Len(t)})
        win(k) == Trimmed(SubSeq(t, (k - 1) * step + 1,
                                 Min((k - 1) * step + size, Len(t))))
        NonEmpty(w) == w # <<>>
    IN  SelectSeq([k \in 1..n |-> win(k)], NonEmpty)

\* C5: for chunk_size >= 1 and overlap >= 0 chunk_text returns exactly the
\* non-empty trimmed windows of the trimmed text at offsets 0, step, 2*step, ...
\* in offset order; blank text yields the empty sequence.
C5_Windows ==
    (cPc = "ret" /\ cSize >= 1 /\ cOverlap >= 0)
        => /\ chunks = ExpectedWindows(cText, cSize, cOverlap)
           /\ (Trimmed(cText) = <<>> => chunks = <<>>)

\* a return where trimming changed the text, a window was dropped and two
\* chunks remain
C5_Witness ==
    /\ cPc = "ret" /\ cSize >= 1 /\ cOverlap >= 0
    /\ text # cText
    /\ Len(chunks) >= 2
    /\ Len(chunks) < Cardinality({k \in 0..Len(text) : k * ChunkStep(cSize, cOverlap) < Len(text)})

\* ceil(a / b) for b > 0
CeilDiv(a, b) == -((-a) \div b)

NoSpace(s) == \A k \in 1..Len(s) : ~IsSpace(s[k])

\* characters of the text that chunks k and k+1 both cover
Shared(k) == Max(0, cOffsets[k] + Len(chunks[k]) - cOffsets[k + 1])

C6_Case == cPc = "ret" /\ cText # <<>> /\ NoSpace(cText) /\ 0 <= cOverlap /\ cOverlap < cSize

\* C6 as stated: the chunk count is ceil((len(T) - overlap) / (size - overlap))
\* and consecutive chunks share at most `overlap` characters.
C6_Original ==
    C6_Case =>
        /\ Len(chunks) = CeilDiv(Len(cText) - cOverlap, cSize - cOverlap)
        /\ \A k \in 1..(Len(chunks) - 1) : Shared(k) <= cOverlap

\* C6, amended: for non-empty whitespace-free T and 0 <= overlap < size the
\* chunk count is ceil(len(T) / (size - overlap)), and consecutive chunks
\* share at most `overlap` characters of T.
C6_Count ==
    C6_Case =>
        /\ Len(chunks) = CeilDiv(Len(cText), cSize - cOverlap)
        /\ \A k \in 1..(Len(chunks) - 1) : Shared(k) <= cOverlap

\* a whitespace-free text cut into several chunks that share exactly `overlap`
C6_Witness ==
    /\ C6_Case
    /\ cOverlap >= 1
    /\ Len(chunks) >= 3
    /\ \E k \in 1..(Len(chunks) - 1) : Shared(k) = cOverlap

----------------------------------------------------------------------------
\* Properties of an ingestion run (main)

\* C1: when the provider answers a batch with a vector count other than the
\* batch length, the run reports an EmbeddingProviderError and no entry built
\* from that batch is ever upserted into the collection.
C1_MismatchRejected ==
    mismatch =>
        /\ raised = "EmbeddingProviderError"
        /\ \A k \in 1..Len(collection) : collection[k].id \notin mismatchIds

\* C2: once reading a file or an embed call has failed, the run is aborted with
\* that exception, nothing is in the collection, and no later step reads a
\* file, embeds a batch, upserts or reports completion.
C2_FailFast ==
    /\ [](ioFailed # "none" =>
            /\ iPc = "aborted"
            /\ raised = (IF ioFailed = "read" THEN "OSError" ELSE "APIError")
            /\ upsertCalls = 0
            /\ reported = -1
            /\ collection = <<>>)
    /\ [][ioFailed # "none" =>
            UNCHANGED <<readCalls, embedCalls, upsertCalls, reported, collection, points>>]_vars

\* an embed call failed after points were built, with files still to come
C2_Witness ==
    /\ ioFailed = "embed"
    /\ points # <<>>
    /\ fp < Len(corpus)
    /\ iPc = "aborted"

\* C7: any two entries of one run with the same source have different
\* chunk_index values, the later-built one the strictly greater.
C7_IndexIncreasing ==
    \A a, b \in 1..Len(points) :
        (a < b /\ points[a].payload.source = points[b].payload.source)
            => points[a].payload.chunk_index < points[b].payload.chunk_index

\* an eligible file, by the words of the claim
IsIngested(f) == ~f.is_dir /\ f.suffix \in {".md", ".MD", ".txt", ".TXT"}

RECURSIVE TotalChunks(_)
TotalChunks(files) ==
    IF files = <<>> THEN 0
    ELSE (IF IsIngested(Head(files))
          THEN Len(ExpectedWindows(Head(files).content, DefaultChunkSize, DefaultOverlap))
          ELSE 0) + TotalChunks(Tail(files))

\* C9: a run that reports completion has called upsert at most once and never
\* with an empty list, and the reported count is the number of entries in the
\* collection and the sum of the chunk counts of the eligible files; with no
\* chunk it reports 0 and the collection is empty.
C9_ReportedCount ==
    iPc = "done" =>
        /\ upsertCalls <= 1
        /\ (upsertCalls = 1 => points # <<>>)
        /\ reported = Len(collection)
        /\ reported = TotalChunks(corpus)
        /\ (TotalChunks(corpus) = 0 => reported = 0 /\ collection = <<>>)

----------------------------------------------------------------------------
\* Properties of rag_search

C4_LimitRejected ==
    (Trimmed(query) # <<>> /\ limit <= 0 /\ sPc # "call") =>
        /\ sPc = "done"
        /\ (result.status = "error" \/ sRaised = "ValidationError")
        /\ sEmbedCalls = 0 /\ sIndexCalls = 0

\* C10: a failed embed call or index query ends the search after that one
\* attempt, with no index query after a failed embedding, and the caller gets
\* EmbeddingProviderError or IndexQueryError, not the provider's exception.
C10_TypedErrors ==
    /\ sFailed = "embed" =>
        /\ sPc = "done" /\ sEmbedCalls = 1 /\ sIndexCalls = 0
        /\ sRaised = "EmbeddingProviderError"
    /\ sFailed = "index" =>
        /\ sPc = "done" /\ sEmbedCalls = 1 /\ sIndexCalls = 1
        /\ sRaised = "IndexQueryError"

----------------------------------------------------------------------------
\* Properties of the vectors

\* C8 as stated: every vector in the collection and every query vector sent
\* to the index has norm 1.
C8_Original ==
    /\ \A k \in 1..Len(collection) : HasUnitNorm(collection[k].vector)
    /\ (sIndexCalls > 0 => HasUnitNorm(qvec))

NormalizedOrZero(x) ==
    IF \A k \in 1..Len(x.v) : x.v[k] = 0 THEN x.d = 1 ELSE HasUnitNorm(x)

\* C8, amended: every vector upserted and every query vector sent to the
\* index has norm 1 when the provider's vector has a non-zero norm; an
\* all-zero vector is upserted or sent unchanged, with norm 0.
C8_UnitNorm ==
    /\ \A k \in 1..Len(collection) : NormalizedOrZero(collection[k].vector)
    /\ (sIndexCalls > 0 => NormalizedOrZero(qvec))

\* a run has upserted a rescaled vector and a zero vector, and a search has
\* sent a rescaled query vector
C8_Witness ==
    /\ upsertCalls = 1 /\ iPc = "done"
    /\ \E k \in 1..Len(collection) :
            collection[k].vector.d > 1 /\ HasUnitNorm(collection[k].vector)
    /\ \E k \in 1..Len(collection) : HasZeroNorm(collection[k].vector)
    /\ sIndexCalls = 1 /\ qvec.d > 1 /\ HasUnitNorm(qvec)

----------------------------------------------------------------------------
\* Properties of the batches of a run

\* the chunk sequence of the f-th directory entry
FileChunks(f) ==
    IF IsIngested(corpus[f])
    THEN ExpectedWindows(corpus[f].content, DefaultChunkSize, DefaultOverlap)
    ELSE <<>>

\* the batches sent for the f-th directory entry, in the order sent
BatchesOf(f) ==
    LET Of(b) == b.file = f
    IN  SelectSeq(sent, Of)

\* bs cuts c from position `at` on into consecutive batches of 1..BATCH texts,
\* each answered with one vector per text
RECURSIVE Tiles(_, _, _)
Tiles(bs, c, at) ==
    IF bs = <<>> THEN at = Len(c)
    ELSE LET b == Head(bs)
         IN  /\ b.at = at
             /\ Len(b.texts) \in 1..BATCH
             /\ at + Len(b.texts) <= Len(c)
             /\ b.texts = SubSeq(c, at + 1, at + Len(b.texts))
             /\ Len(b.vecs) = Len(b.texts)
             /\ Tiles(Tail(bs), c, at + Len(b.texts))

\* what the entries of the batches bs have to be, in the order built
RECURSIVE EntriesOf(_)
EntriesOf(bs) ==
    IF bs = <<>> THEN <<>>
    ELSE LET b == Head(bs)
         IN  [j \in 1..Len(b.texts) |->
                [source |-> corpus[b.file].name,
                 chunk_index |-> b.at + j - 1,
                 text |-> FileChunks(b.file)[b.at + j],
                 raw |-> b.vecs[j]]] \o EntriesOf(Tail(bs))

\* C11: when the provider returns one vector per text, the batches of every
\* file cut its chunk sequence c_0..c_{n-1} into consecutive batches of at most
\* 16 texts, each answered before the next is sent, and the run builds exactly
\* one entry per chunk: the entry with chunk_index i has text c_i, the file's
\* name as source and the normalized vector the provider returned for c_i.
C11_EntriesMatchChunks ==
    (~mismatch /\ iPc \in {"upsert", "print", "done"}) =>
        /\ \A f \in 1..Len(corpus) : Tiles(BatchesOf(f), FileChunks(f), 0)
        /\ \A k \in 1..(Len(sent) - 1) : sent[k].file <= sent[k + 1].file
        /\ LET es == EntriesOf(sent)
           IN  /\ Len(points) = Len(es)
               /\ \A k \in 1..Len(points) :
                    /\ points[k].payload.source = es[k].source
                    /\ points[k].payload.chunk_index = es[k].chunk_index
                    /\ points[k].payload.text = es[k].text
                    /\ points[k].vector.v = es[k].raw
                    /\ NormalizedOrZero(points[k].vector)

\* a completed run over two files, one of them cut into two batches
C11_Witness ==
    /\ iPc = "done" /\ ~mismatch
    /\ Len(sent) >= 3
    /\ \E k \in 1..(Len(sent) - 1) :
            sent[k].file = sent[k + 1].file /\ sent[k + 1].at = BATCH
    /\ Len(points) > BATCH + 1

----------------------------------------------------------------------------
\* Termination of chunk_text

\* C12: chunk_text terminates for every text and every integer chunk_size and
\* overlap, chunk_size <= overlap and chunk_size <= 0 included: every
\* iteration moves the offset up by at least 1, so the loop runs at most
\* len(trimmed text) times and returns at most that many chunks.
C12_Terminates ==
    /\ <>(cPc = "ret")
    /\ [](cIters <= Len(text) /\ Len(chunks) <= cIters /\ cIters <= i)
    /\ [][(cPc = "loop" /\ cPc' = "loop") => (i' >= i + 1 /\ cIters' = cIters + 1)]_vars

\* a return after the loop ran once per character with chunk_size <= 0
C12_Witness ==
    /\ cPc = "ret"
    /\ cSize <= 0
    /\ Len(text) >= 3
    /\ cIters = Len(text)
    /\ chunks # <<>>

----------------------------------------------------------------------------
\* Properties of a search running beside an ingestion run

RunIds == {points[k].id : k \in 1..Len(points)}

\* C13: in every interleaving of a search with one ingestion run, a search
\* whose index query is answered sees none of the run's entries or all of
\* them, never some; answered after recreate_collection and before the upsert
\* it returns status ok with an empty result list.
C13_AllOrNothing ==
    /\ sSeenAt # "none" =>
        /\ (sSeen \cap RunIds = {} \/ RunIds \subseteq sSeen)
        /\ sPc = "done" /\ result.status = "ok" /\ sRaised = "none"
        /\ Len(result.results) = Min(limit, Cardinality(sSeen))
    /\ sSeenAt = "window" => (sSeen = {} /\ result.results = <<>>)
    /\ sSeenAt = "after" => (sSeen = RunIds /\ RunIds # {})

\* a search answered while the run held built points that were not yet upserted
C13_Witness ==
    /\ sSeenAt = "window"
    /\ Len(points) >= 2
    /\ iPc = "done" /\ Len(collection) = Len(points)
    /\ result.status = "ok" /\ result.results = <<>>

----------------------------------------------------------------------------
\* Properties of repeated runs

\* C14: after any sequence of runs the collection holds exactly the entries
\* of the most recent run if that run completed and is empty if it aborted
\* after recreate_collection; once recreate_collection has returned no entry
\* of an earlier run remains.
C14_LastRunOnly ==
    /\ iPc = "done" => collection = points
    /\ (iPc = "aborted" /\ recreated) => collection = <<>>
    /\ recreated =>
        /\ collExists
        /\ (collection = <<>> \/ (collection = points /\ upsertCalls = 1))

\* a second run that aborted with points built, on a collection that the
\* first run had filled
C14_Witness ==
    /\ runs = 2
    /\ inherited >= 2
    /\ iPc = "aborted" /\ recreated
    /\ points # <<>>
    /\ collection = <<>>

====
